---- MODULE Spec2Model ----
(***************************************************************************)
(* Verification model of the Pulsar installer crate                        *)
(* (crates/installer/src).                                                 *)
(*                                                                         *)
(* Part 1: steps/mod.rs (StepSequence) and traits.rs (InstallStep).        *)
(* Part 2: the built-in steps acting on the filesystem, and the verified   *)
(*         download of download/manager.rs.                                *)
(* Part 3: platform/detector.rs (requirement checking).                    *)
(***************************************************************************)
EXTENDS Integers, Sequences, FiniteSets, TLC

(***************************************************************************)
(* Bounds of the model.                                                    *)
(***************************************************************************)
MaxSteps == 3
MaxCalls == 4
MaxFsCalls == 3
MaxFileSize == 3
MaxFault == 2
MaxBody == 3
MaxBuilders == 4
MaxComponents == 2
MaxSelected == 3
MaxSize == 2
MaxReleases == 2
MaxAssetSize == 2
MaxReceived == 3
MaxRequests == 4
MaxParts == 2

(***************************************************************************)
(* Part 1.  StepSequence and the InstallStep trait.                        *)
(*                                                                         *)
(* StepSequence owns `steps` and `current_step`.  Its whole interface is   *)
(* new, add_step, steps, current_step, total_steps and is_complete; the    *)
(* steps it holds are reached through steps(), and the holder of a step    *)
(* calls the trait methods can_execute, execute and rollback on it.        *)
(* `calls` records those trait calls with the result each returned.        *)
(***************************************************************************)
VARIABLES steps, current_step, calls

seqVars == <<steps, current_step, calls>>

\* error.rs: the InstallerError kinds a step's execute is seen to return here
ExecErrors == {"ComponentFailed", "ChecksumMismatch"}

\* error.rs: the InstallerError kind a failing rollback returns here
RollbackErrors == {"Io"}

\* An InstallStep implementation, as far as the sequence can tell steps apart:
\* what its can_execute returns.  The trait's default (and every built-in
\* step) returns Ok(true).
StepImpls == [can : BOOLEAN]

\* StepSequence::new
SeqNew ==
    /\ steps = <<>>
    /\ current_step = 0
    /\ calls = <<>>

\* StepSequence::total_steps
total_steps == Len(steps)

\* StepSequence::is_complete
is_complete == current_step >= Len(steps)

\* StepSequence::add_step
add_step(s) ==
    /\ Len(steps) < MaxSteps
    /\ steps' = Append(steps, s)
    /\ UNCHANGED <<current_step, calls>>

\* one record of `calls`
Call(op, i, r) == [op |-> op, idx |-> i, res |-> r]

\* InstallStep::can_execute on steps()[i]
can_execute(i) ==
    /\ Len(calls) < MaxCalls
    /\ calls' = Append(calls, Call("can_execute", i, steps[i].can))
    /\ UNCHANGED <<steps, current_step>>

\* InstallStep::execute on steps()[i], returning r
execute(i, r) ==
    /\ Len(calls) < MaxCalls
    /\ calls' = Append(calls, Call("execute", i, r))
    /\ UNCHANGED <<steps, current_step>>

\* InstallStep::rollback on steps()[i], returning r
rollback(i, r) ==
    /\ Len(calls) < MaxCalls
    /\ calls' = Append(calls, Call("rollback", i, r))
    /\ UNCHANGED <<steps, current_step>>

(***************************************************************************)
(* Part 2.  The filesystem the built-in steps act on.                      *)
(*                                                                         *)
(* A path is a tuple of components.  fs maps every path of the model to    *)
(* "absent", "dir", or (for a regular file) the file's content.            *)
(***************************************************************************)
VARIABLES fs, archive_name, hist

fsVars == <<fs, archive_name, hist>>

\* create_directories.rs: the subdirectories CreateDirectoriesStep::new lists
Subdirectories == <<"bin", "lib", "assets", "plugins", "projects", "docs">>

\* linux.rs: the icon sizes install_icons walks
IconSizes == <<"16x16", "32x32", "48x48", "64x64", "128x128", "256x256">>

\* base_path of CreateDirectoriesStep, destination of ExtractFilesStep,
\* install_path of CreateShortcutsStep and FinalizeStep
BasePath == <<"base">>

\* linux.rs: get_user_bin_dir, get_user_applications_dir, get_user_icon_dir
\* and the metadata directory of write_uninstall_metadata
BinDir == <<"localbin">>
ApplicationsDir == <<"applications">>
IconDir == <<"icons">>
MetadataDir == <<"pulsardata">>

\* the download directory and the archive ExtractFilesStep reads
DownloadDir == <<"dl">>
ArchivePath == <<"dl", "archive">>

\* Path::join
Join(p, c) == Append(p, c)

\* Path::parent
Parent(p) == SubSeq(p, 1, Len(p) - 1)

UserFile == Join(BasePath, "user.dat")
AppBin == Join(BasePath, "app.bin")
InstallInfo == Join(BasePath, "install_info.json")
SourceBinary == Join(BasePath, "pulsar")
BinaryPath == Join(BinDir, "pulsar")
DesktopEntry == Join(ApplicationsDir, "pulsar.desktop")
UninstallMetadata == Join(MetadataDir, "uninstall_metadata.json")

Range(s) == {s[i] : i \in DOMAIN s}

Paths ==
    {BasePath, BinDir, ApplicationsDir, IconDir, MetadataDir, DownloadDir,
     ArchivePath, UserFile, AppBin, InstallInfo, SourceBinary, BinaryPath,
     DesktopEntry, UninstallMetadata}
    \cup {Join(BasePath, d) : d \in Range(Subdirectories)}
    \cup {Join(IconDir, z) : z \in Range(IconSizes)}

\* contents a regular file of the model can have
Data == {"user", "old", "archive", "pulsar", "desktop", "metadata", "info",
         "bodyA", "bodyB", "partial"}

IsFile(f, p) == f[p] \in Data
IsDir(f, p) == f[p] = "dir"

\* Path::exists
Exists(f, p) == f[p] # "absent"

\* p is q or lies below q
Under(p, q) == Len(p) >= Len(q) /\ SubSeq(p, 1, Len(q)) = q

\* the directory a top-level path of the model lies in always exists
ParentIsDir(f, p) == Len(p) = 1 \/ IsDir(f, Parent(p))

\* result of a filesystem call: the error ("none" when it succeeded) and the
\* filesystem it leaves
FsOk(f) == [err |-> "none", fs |-> f]
FsErr(e, f) == [err |-> e, fs |-> f]

\* std::fs::create_dir_all
RECURSIVE create_dir_all(_, _)
create_dir_all(f, p) ==
    IF IsDir(f, p) THEN FsOk(f)
    ELSE IF IsFile(f, p) THEN FsErr("Io", f)
    ELSE IF Len(p) = 1 THEN FsOk([f EXCEPT ![p] = "dir"])
    ELSE LET up == create_dir_all(f, Parent(p))
         IN  IF up.err # "none" THEN up
             ELSE FsOk([up.fs EXCEPT ![p] = "dir"])

\* std::fs::remove_dir_all: fails on a path that is absent or a regular file
remove_dir_all(f, p) ==
    IF IsDir(f, p)
    THEN FsOk([q \in Paths |-> IF Under(q, p) THEN "absent" ELSE f[q]])
    ELSE FsErr("Io", f)

\* std::fs::write and File::create followed by writes
write(f, p, d) ==
    IF ParentIsDir(f, p) /\ ~IsDir(f, p)
    THEN FsOk([f EXCEPT ![p] = d])
    ELSE FsErr("Io", f)

\* std::fs::copy
copy(f, src, dst) ==
    IF IsFile(f, src) /\ ParentIsDir(f, dst) /\ ~IsDir(f, dst)
    THEN FsOk([f EXCEPT ![dst] = f[src]])
    ELSE FsErr("Io", f)

\* one filesystem call of a step, as data
MkDirs(p) == [call |-> "create_dir_all", path |-> p, from |-> p, data |-> "dir"]
Write(p, d) == [call |-> "write", path |-> p, from |-> p, data |-> d]
Copy(src, dst) == [call |-> "copy", path |-> dst, from |-> src, data |-> "dir"]
Open(p) == [call |-> "open", path |-> p, from |-> p, data |-> "dir"]

ApplyOp(f, op) ==
    CASE op.call = "create_dir_all" -> create_dir_all(f, op.path)
      [] op.call = "write" -> write(f, op.path, op.data)
      [] op.call = "copy" -> copy(f, op.from, op.path)
      [] op.call = "open" -> IF IsFile(f, op.path) THEN FsOk(f) ELSE FsErr("Io", f)

\* The calls of `ops` in order, each followed by `?`: the first error ends the
\* run.  fault = n > 0 makes the n-th call fail in the operating system
\* (permissions, full disk) without effect; fault = 0 injects nothing.
RECURSIVE RunOps(_, _, _)
RunOps(f, ops, fault) ==
    IF ops = <<>> THEN FsOk(f)
    ELSE IF fault = 1 THEN FsErr("Io", f)
    ELSE LET r == ApplyOp(f, Head(ops))
         IN  IF r.err # "none" THEN r
             ELSE RunOps(r.fs, Tail(ops), IF fault = 0 THEN 0 ELSE fault - 1)

\* the n-th call of a step's execute being made to fail, 0 for none
Faults(ops) == 0 .. (IF Len(ops) < MaxFault THEN Len(ops) ELSE MaxFault)

(***************************************************************************)
(* steps/create_directories.rs                                             *)
(***************************************************************************)
CreateDirectoriesOps ==
    <<MkDirs(BasePath)>> \o
    [i \in 1 .. Len(Subdirectories) |-> MkDirs(Join(BasePath, Subdirectories[i]))]

\* CreateDirectoriesStep::execute
CreateDirectories_execute(f, fault) == RunOps(f, CreateDirectoriesOps, fault)

\* CreateDirectoriesStep::rollback without its exists() test: "remove,
\* erroring if absent"
CreateDirectories_rollback_unguarded(f) == remove_dir_all(f, BasePath)

\* CreateDirectoriesStep::rollback
CreateDirectories_rollback(f) ==
    IF Exists(f, BasePath) THEN remove_dir_all(f, BasePath) ELSE FsOk(f)

(***************************************************************************)
(* steps/extract_files.rs                                                  *)
(***************************************************************************)
\* file names an archive can have, as their dot-separated parts
ArchiveNames == {<<"pulsar", "tar", "gz">>, <<"pulsar", "tgz">>, <<"pulsar", "zip">>}

\* Path::extension: what follows the last dot of the file name
Extension(name) == IF Len(name) >= 2 THEN name[Len(name)] ELSE ""

\* the entries of the archive
ArchiveEntries == <<"pulsar">>

\* ExtractFilesStep::extract_tar_gz: the archive is opened twice, then every
\* entry is unpacked into the destination, which has to be a directory
ExtractOps ==
    <<Open(ArchivePath), Open(ArchivePath)>> \o
    [i \in 1 .. Len(ArchiveEntries) |-> Write(Join(BasePath, ArchiveEntries[i]), "pulsar")]

\* ExtractFilesStep::execute
ExtractFiles_execute(f, name, fault) ==
    IF Extension(name) \in {"gz", "tgz"}
    THEN RunOps(f, ExtractOps, fault)
    ELSE FsErr("Other", f)

\* ExtractFilesStep::rollback
ExtractFiles_rollback(f) == FsOk(f)

(***************************************************************************)
(* steps/create_shortcuts.rs on Linux: LinuxInstaller::install             *)
(***************************************************************************)
\* install_binary, create_desktop_entry, install_icons and
\* write_uninstall_metadata, in the order install calls them
LinuxInstallOps ==
    <<MkDirs(BinDir), Copy(SourceBinary, BinaryPath),
      MkDirs(ApplicationsDir), Write(DesktopEntry, "desktop")>> \o
    [i \in 1 .. Len(IconSizes) |-> MkDirs(Join(IconDir, IconSizes[i]))] \o
    <<MkDirs(MetadataDir), Write(UninstallMetadata, "metadata")>>

\* CreateShortcutsStep::execute
CreateShortcuts_execute(f, fault) == RunOps(f, LinuxInstallOps, fault)

\* CreateShortcutsStep::rollback
CreateShortcuts_rollback(f) == FsOk(f)

(***************************************************************************)
(* steps/finalize.rs                                                       *)
(***************************************************************************)
\* FinalizeStep::execute: verify_installation, then write_installation_info
FinalizeOps == <<Write(InstallInfo, "info")>>

Finalize_execute(f, fault) ==
    IF ~Exists(f, BasePath) THEN FsErr("InvalidPath", f)
    ELSE RunOps(f, FinalizeOps, fault)

\* FinalizeStep inherits InstallStep::rollback
Finalize_rollback(f) == FsOk(f)

(***************************************************************************)
(* download/verifier.rs and download/manager.rs                            *)
(***************************************************************************)
\* hex::encode(Sha256::digest(data)): the lower-case hex digest of the data;
\* a checksum is a digest written in lower or in upper case
Checksums == [of : Data, upper : BOOLEAN]
calculate_sha256(d) == [of |-> d, upper |-> FALSE]

\* a comparison that keeps the case of the digits
to_lowercase_identity(h) == h

\* str::to_lowercase
to_lowercase(h) == [h EXCEPT !.upper = FALSE]

\* FileVerifier::verify_sha256
verify_sha256(f, p, expected) ==
    IF ~IsFile(f, p) THEN FsErr("Io", f)
    ELSE IF to_lowercase(calculate_sha256(f[p])) # to_lowercase(expected)
         THEN FsErr("ChecksumMismatch", f)
         ELSE FsOk(f)

\* what the server does with the request
Responses == [kind : {"transport_error", "http_error", "read_error", "ok"},
              body : {"bodyA", "bodyB"}]

\* HttpDownloadManager::download_impl
download_impl(f, dest, resp) ==
    IF resp.kind \in {"transport_error", "http_error"} THEN FsErr("Download", f)
    ELSE IF ~(ParentIsDir(f, dest) /\ ~IsDir(f, dest)) THEN FsErr("Io", f)
    ELSE IF resp.kind = "read_error"
         THEN FsErr("Download", [f EXCEPT ![dest] = "partial"])
         ELSE FsOk([f EXCEPT ![dest] = resp.body])

\* HttpDownloadManager::download_with_verification
download_with_verification(f, dest, resp, expected) ==
    LET d == download_impl(f, dest, resp)
    IN  IF d.err # "none" THEN d ELSE verify_sha256(d.fs, dest, expected)

(***************************************************************************)
(* The calls made on the built-in steps.  hist records each call with the  *)
(* result it returned and the filesystem it found.                         *)
(***************************************************************************)
FsCall(op, step, r) ==
    /\ Len(hist) < MaxFsCalls
    /\ hist' = Append(hist, [op |-> op, step |-> step, res |-> r.err, before |-> fs])
    /\ fs' = r.fs
    /\ UNCHANGED archive_name

CreateDirectoriesStep_execute ==
    \E fault \in Faults(CreateDirectoriesOps) :
        FsCall("execute", "CreateDirectories", CreateDirectories_execute(fs, fault))

CreateDirectoriesStep_rollback ==
    FsCall("rollback", "CreateDirectories", CreateDirectories_rollback(fs))

ExtractFilesStep_execute ==
    \E fault \in Faults(ExtractOps) :
        FsCall("execute", "ExtractFiles", ExtractFiles_execute(fs, archive_name, fault))

ExtractFilesStep_rollback ==
    FsCall("rollback", "ExtractFiles", ExtractFiles_rollback(fs))

CreateShortcutsStep_execute ==
    \E fault \in Faults(LinuxInstallOps) :
        FsCall("execute", "CreateShortcuts", CreateShortcuts_execute(fs, fault))

CreateShortcutsStep_rollback ==
    FsCall("rollback", "CreateShortcuts", CreateShortcuts_rollback(fs))

FinalizeStep_execute ==
    \E fault \in Faults(FinalizeOps) :
        FsCall("execute", "Finalize", Finalize_execute(fs, fault))

FinalizeStep_rollback ==
    FsCall("rollback", "Finalize", Finalize_rollback(fs))

HttpDownloadManager_download_with_verification ==
    \E resp \in Responses, expected \in Checksums :
        /\ expected.of = "bodyA"
        /\ FsCall("execute", "Download",
                  download_with_verification(fs, AppBin, resp, expected))

\* the filesystems an installation can start from: the install path absent, a
\* regular file, an empty directory, a directory with a user's file in it, or
\* a directory holding the unpacked binary; the archive downloaded
InitialFs ==
    {[p \in Paths |->
        IF p = BasePath THEN (IF base = "file" THEN "old"
                              ELSE IF base = "absent" THEN "absent" ELSE "dir")
        ELSE IF p = UserFile THEN (IF base = "content" THEN "user" ELSE "absent")
        ELSE IF p = SourceBinary THEN (IF base = "unpacked" THEN "pulsar" ELSE "absent")
        ELSE IF p = DownloadDir THEN "dir"
        ELSE IF p = ArchivePath THEN "archive"
        ELSE "absent"] :
     base \in {"absent", "file", "empty", "content", "unpacked"}}

FsInit ==
    /\ fs \in InitialFs
    /\ archive_name \in ArchiveNames
    /\ hist = <<>>

FsIdle ==
    /\ fs = [p \in Paths |-> "absent"]
    /\ archive_name = <<"pulsar", "tar", "gz">>
    /\ hist = <<>>

(***************************************************************************)
(* Part 3.  platform/detector.rs: requirement checking.                    *)
(***************************************************************************)
VARIABLES requirements, architecture, probe, outcome,
          install_path, disk, candidate, validation

reqVars == <<requirements, architecture, probe, outcome,
             install_path, disk, candidate, validation>>

\* std::env::consts::ARCH values
Archs == {"x86_64", "aarch64"}

\* detector.rs: the factor of the placeholder in get_available_space_impl
SpaceFactor == 100

\* SystemRequirements values: min_disk_space around the multiples of
\* SpaceFactor the probe can return
SystemRequirements ==
    [min_disk_space : {0, SpaceFactor - 1, SpaceFactor, SpaceFactor + 1,
                       MaxFileSize * SpaceFactor + 1},
     min_ram_mb : {"None", "Some"},
     os_versions : {<<>>, <<"Linux">>},
     architectures : SUBSET Archs]

\* std::fs::metadata of the probed path: absent, or a file of some size
Metadata == [exists : BOOLEAN, size : 0 .. MaxFileSize]

ReqOk == [err |-> "none", needed |-> 0, available |-> 0]

\* PlatformDetector::get_available_space_impl (unix)
get_available_space_impl(m) ==
    IF ~m.exists THEN [err |-> "Io", space |-> 0]
    ELSE [err |-> "none", space |-> m.size * SpaceFactor]

\* check_requirements_impl with the space comparison off by one (<= for <)
check_requirements_impl_strict(arch, m, req) ==
    LET space == get_available_space_impl(m)
    IN  IF space.err # "none"
        THEN [err |-> "Io", needed |-> 0, available |-> 0]
        ELSE IF space.space <= req.min_disk_space
        THEN [err |-> "InsufficientSpace", needed |-> req.min_disk_space,
              available |-> space.space]
        ELSE IF arch \notin req.architectures
        THEN [err |-> "RequirementsNotMet", needed |-> 0, available |-> 0]
        ELSE ReqOk

\* check_requirements_impl with the two checks in the other order
check_requirements_impl_arch_first(arch, m, req) ==
    LET space == get_available_space_impl(m)
    IN  IF space.err # "none"
        THEN [err |-> "Io", needed |-> 0, available |-> 0]
        ELSE IF arch \notin req.architectures
        THEN [err |-> "RequirementsNotMet", needed |-> 0, available |-> 0]
        ELSE IF space.space < req.min_disk_space
        THEN [err |-> "InsufficientSpace", needed |-> req.min_disk_space,
              available |-> space.space]
        ELSE ReqOk

\* PlatformDetector::check_requirements_impl
check_requirements_impl(arch, m, req) ==
    LET space == get_available_space_impl(m)
    IN  IF space.err # "none"
        THEN [err |-> "Io", needed |-> 0, available |-> 0]
        ELSE IF space.space < req.min_disk_space
        THEN [err |-> "InsufficientSpace", needed |-> req.min_disk_space,
              available |-> space.space]
        ELSE IF arch \notin req.architectures
        THEN [err |-> "RequirementsNotMet", needed |-> 0, available |-> 0]
        ELSE ReqOk

NotRun == [err |-> "not_run", needed |-> 0, available |-> 0]

\* CheckRequirementsStep::execute -> SystemDetector::check_requirements
CheckRequirementsStep_execute ==
    /\ outcome = NotRun
    /\ outcome' = check_requirements_impl(architecture, probe, requirements)
    /\ UNCHANGED <<requirements, architecture, probe,
                   install_path, disk, candidate, validation>>

\* the paths an installation can be configured with: the detector's
\* default_install_path() and a path the user chose
DefaultInstallPath == "default_install_path"
InstallPaths == {DefaultInstallPath, "chosen"}

\* ConfigManager::set_install_path (config.rs)
set_install_path(path) ==
    /\ outcome = NotRun
    /\ install_path # path
    /\ install_path' = path
    /\ UNCHANGED <<requirements, architecture, probe, outcome,
                   disk, candidate, validation>>

\* what validate_path_impl and check_write_permission read of a path:
\* Path::is_absolute, Path::exists, metadata().permissions().readonly(),
\* and the same two of Path::parent
PathInfos ==
    [absolute : BOOLEAN, exists : BOOLEAN, readonly : BOOLEAN,
     parent_exists : BOOLEAN, parent_readonly : BOOLEAN]

\* PlatformDetector::check_write_permission
check_write_permission(p) ==
    IF ~p.exists
    THEN IF p.parent_exists THEN p.parent_readonly = FALSE ELSE FALSE
    ELSE p.readonly = FALSE

\* PlatformDetector::validate_path_impl
validate_path_impl(p) ==
    IF ~p.absolute THEN "InvalidPath"
    ELSE IF p.exists /\ ~check_write_permission(p) THEN "Other"
    ELSE "none"

NotValidated == "not_run"

\* SystemDetector::validate_install_path -> validate_path_impl
validate_install_path ==
    /\ validation = NotValidated
    /\ \E p \in PathInfos :
           /\ p.exists => p.parent_exists
           /\ candidate' = p
           /\ validation' = validate_path_impl(p)
    /\ UNCHANGED <<requirements, architecture, probe, outcome,
                   install_path, disk>>

NoCandidate ==
    [absolute |-> FALSE, exists |-> FALSE, readonly |-> FALSE,
     parent_exists |-> FALSE, parent_readonly |-> FALSE]

ReqInit ==
    /\ requirements \in SystemRequirements
    /\ architecture \in Archs
    /\ probe \in {m \in Metadata : ~m.exists => m.size = 0}
    /\ outcome = NotRun
    /\ install_path = DefaultInstallPath
    /\ disk \in {d \in [InstallPaths -> Metadata] :
                    /\ d[DefaultInstallPath] = probe
                    /\ ~d["chosen"].exists => d["chosen"].size = 0}
    /\ candidate = NoCandidate
    /\ validation = NotValidated

ReqIdle ==
    /\ requirements = [min_disk_space |-> 0, min_ram_mb |-> "None",
                       os_versions |-> <<>>, architectures |-> {}]
    /\ architecture = "x86_64"
    /\ probe = [exists |-> FALSE, size |-> 0]
    /\ outcome = NotRun
    /\ install_path = DefaultInstallPath
    /\ disk = [p \in InstallPaths |-> [exists |-> FALSE, size |-> 0]]
    /\ candidate = NoCandidate
    /\ validation = NotValidated

(***************************************************************************)
(* Part 4.  traits.rs (Progress) and download/manager.rs, step by step.    *)
(*                                                                         *)
(* One call of download or download_with_verification, followed through    *)
(* the positions of download_impl: request and status check, File::create, *)
(* the read/write/progress loop, flush, and the verification.              *)
(***************************************************************************)
VARIABLES api, expected_checksum, response, destination, destination0,
          total_size, downloaded, chunks_read, sink, pc, failed_at, result

dlVars == <<api, expected_checksum, response, destination, destination0,
            total_size, downloaded, chunks_read, sink, pc, failed_at, result>>

\* an f32 is held in thousandths, or is NaN
F32Unit == 1000
F32(n) == [nan |-> FALSE, v |-> n * F32Unit]
NaN == [nan |-> TRUE, v |-> 0]

\* f32::clamp(0.0, 100.0): NaN stays NaN
clamp(x) ==
    IF x.nan THEN x
    ELSE IF x.v < F32(0).v THEN F32(0)
    ELSE IF x.v > F32(100).v THEN F32(100)
    ELSE x

None == [some |-> FALSE, v |-> 0]
Some(x) == [some |-> TRUE, v |-> x]

\* Progress::new
Progress_new(current) ==
    [current |-> clamp(current), total_bytes |-> None,
     processed_bytes |-> 0, message |-> None]

\* Progress::with_total_bytes
with_total_bytes(p, total) == [p EXCEPT !.total_bytes = Some(total)]

\* Progress::with_processed_bytes
with_processed_bytes(p, processed) == [p EXCEPT !.processed_bytes = processed]

\* Progress::with_message
with_message(p, message) == [p EXCEPT !.message = Some(message)]

\* bytes of a response body, and the chunks body.read delivers them in
Bytes == {0, 1}
Bodies == UNION {[1 .. n -> Bytes] : n \in 0 .. MaxBody}
Chunks == Bodies \ {<<>>}

RECURSIVE Flatten(_)
Flatten(cs) == IF cs = <<>> THEN <<>> ELSE Head(cs) \o Flatten(Tail(cs))

\* the ways a body of at most n bytes arrives in non-empty chunks
RECURSIVE ChunkingsUpTo(_)
ChunkingsUpTo(n) ==
    {<<>>} \cup UNION {{<<c>> \o rest : rest \in ChunkingsUpTo(n - Len(c))} :
                        c \in {d \in Chunks : Len(d) <= n}}

Chunkings == ChunkingsUpTo(MaxBody)

\* HTTP status codes answered by the server
StatusCodes == {200, 404}

\* StatusCode::is_success
is_success(status) == status >= 200 /\ status < 300

\* what the server does with the request: the transport fails, or it answers
\* with a status, maybe a content-length header, and a body that is read in
\* chunks up to its end or up to a read failure
DlResponses ==
    {r \in [send : {"ok", "transport_error"}, status : StatusCodes,
            content_length : {None} \cup {Some(n) : n \in 0 .. MaxBody},
            chunks : Chunkings, ending : {"eof", "read_error"}] :
        (r.send = "transport_error" \/ ~is_success(r.status))
        => (r.content_length = None /\ r.chunks = <<>> /\ r.ending = "eof")}

\* the destination file: absent, or its bytes
Absent == [exists |-> FALSE, bytes |-> <<>>]
File(bytes) == [exists |-> TRUE, bytes |-> bytes]

\* expected checksums: the hex digest of some body, in lower or upper case
DlChecksums == [of : Bodies, upper : BOOLEAN]

\* the checksums a caller passes for a response: the digest of its body or
\* the digest of another body
ExpectedFor(r) ==
    {c \in DlChecksums : c.of \in {Flatten(r.chunks), <<>>, <<0>>}}

Pending == [err |-> "pending"]
Ok == [err |-> "none"]
Err(e) == [err |-> e]

\* download_impl line 83-87 with the progress counting the remaining bytes
download_percent_remaining(n, total) ==
    IF total > 0
    THEN [nan |-> FALSE, v |-> ((total - n) * F32(100).v) \div total]
    ELSE F32(0)

\* download_impl line 83-87: (downloaded as f32 / total_size as f32) * 100.0
download_percent(n, total) ==
    IF total > 0
    THEN [nan |-> FALSE, v |-> (n * F32(100).v) \div total]
    ELSE F32(0)

Fail(site, e) ==
    /\ pc' = "done"
    /\ failed_at' = site
    /\ result' = Err(e)

\* download_impl lines 32-49 without the status check
Dl_send_unchecked ==
    /\ pc = "send"
    /\ IF response.send = "transport_error"
       THEN Fail("transport", "Download") /\ UNCHANGED total_size
       ELSE /\ total_size' = IF response.content_length.some
                             THEN response.content_length.v ELSE 0
            /\ pc' = "create"
            /\ UNCHANGED <<failed_at, result>>
    /\ UNCHANGED <<api, expected_checksum, response, destination, destination0,
                   downloaded, chunks_read, sink>>

\* download_impl lines 32-55: send the request, check the status, read the
\* content-length header
Dl_send ==
    /\ pc = "send"
    /\ IF response.send = "transport_error"
       THEN Fail("transport", "Download") /\ UNCHANGED total_size
       ELSE IF ~is_success(response.status)
       THEN Fail("status", "Download") /\ UNCHANGED total_size
       ELSE /\ total_size' = IF response.content_length.some
                             THEN response.content_length.v ELSE 0
            /\ pc' = "create"
            /\ UNCHANGED <<failed_at, result>>
    /\ UNCHANGED <<api, expected_checksum, response, destination, destination0,
                   downloaded, chunks_read, sink>>

\* download_impl lines 57-65: File::create truncates or creates the file
Dl_create ==
    /\ pc = "create"
    /\ \/ /\ destination' = File(<<>>)
          /\ downloaded' = 0
          /\ pc' = "loop"
          /\ UNCHANGED <<failed_at, result>>
       \/ /\ Fail("create", "Io")
          /\ UNCHANGED <<destination, downloaded>>
    /\ UNCHANGED <<api, expected_checksum, response, destination0,
                   total_size, chunks_read, sink>>

\* download_impl lines 67-94: one turn of the loop
Dl_loop ==
    /\ pc = "loop"
    /\ IF chunks_read = Len(response.chunks)
       THEN IF response.ending = "read_error"
            THEN /\ Fail("read", "Download")
                 /\ UNCHANGED <<destination, downloaded, chunks_read, sink>>
            ELSE /\ pc' = "flush"
                 /\ UNCHANGED <<destination, downloaded, chunks_read, sink,
                                failed_at, result>>
       ELSE LET chunk == response.chunks[chunks_read + 1]
                n == Len(chunk)
            IN  \/ /\ destination' = File(destination.bytes \o chunk)
                   /\ downloaded' = downloaded + n
                   /\ chunks_read' = chunks_read + 1
                   /\ sink' = Append(sink,
                         with_processed_bytes(
                           with_total_bytes(
                             Progress_new(download_percent(downloaded + n, total_size)),
                             total_size),
                           downloaded + n))
                   /\ UNCHANGED <<pc, failed_at, result>>
                \/ /\ \E k \in 0 .. n - 1 :
                          destination' = File(destination.bytes \o SubSeq(chunk, 1, k))
                   /\ Fail("write", "Io")
                   /\ UNCHANGED <<downloaded, chunks_read, sink>>
    /\ UNCHANGED <<api, expected_checksum, response, destination0, total_size>>

\* download_impl lines 96-98, and the return of download
Dl_flush ==
    /\ pc = "flush"
    /\ \/ /\ pc' = IF api = "download" THEN "done" ELSE "verify"
          /\ result' = IF api = "download" THEN Ok ELSE result
          /\ UNCHANGED failed_at
       \/ Fail("flush", "Io")
    /\ UNCHANGED <<api, expected_checksum, response, destination, destination0,
                   total_size, downloaded, chunks_read, sink>>

\* verify_sha256 that removes the file it rejects
Dl_verify_discarding ==
    /\ pc = "verify"
    /\ LET actual == calculate_sha256(destination.bytes)
       IN  IF to_lowercase(actual) # to_lowercase(expected_checksum)
           THEN /\ result' = [err |-> "ChecksumMismatch",
                              expected |-> expected_checksum, actual |-> actual]
                /\ failed_at' = "verify"
                /\ destination' = Absent
           ELSE /\ result' = Ok
                /\ UNCHANGED <<failed_at, destination>>
    /\ pc' = "done"
    /\ UNCHANGED <<api, expected_checksum, response, destination0,
                   total_size, downloaded, chunks_read, sink>>

\* download_with_verification lines 129-133 -> FileVerifier::verify_sha256
Dl_verify ==
    /\ pc = "verify"
    /\ LET actual == calculate_sha256(destination.bytes)
       IN  IF to_lowercase(actual) # to_lowercase(expected_checksum)
           THEN /\ result' = [err |-> "ChecksumMismatch",
                              expected |-> expected_checksum, actual |-> actual]
                /\ failed_at' = "verify"
           ELSE /\ result' = Ok
                /\ UNCHANGED failed_at
    /\ pc' = "done"
    /\ UNCHANGED <<api, expected_checksum, response, destination, destination0,
                   total_size, downloaded, chunks_read, sink>>

\* the expected checksum of a plain download, which takes none
NoChecksum == [of |-> <<>>, upper |-> FALSE]

DlInit ==
    /\ api \in {"download", "download_with_verification"}
    /\ response \in DlResponses
    /\ expected_checksum \in
           IF api = "download" THEN {NoChecksum} ELSE ExpectedFor(response)
    /\ destination \in {Absent, File(<<1>>)}
    /\ destination0 = destination
    /\ total_size = 0
    /\ downloaded = 0
    /\ chunks_read = 0
    /\ sink = <<>>
    /\ pc = "send"
    /\ failed_at = "none"
    /\ result = Pending

DlIdle ==
    /\ api = "download"
    /\ expected_checksum = NoChecksum
    /\ response = [send |-> "transport_error", status |-> 404,
                   content_length |-> None, chunks |-> <<>>, ending |-> "eof"]
    /\ destination = Absent
    /\ destination0 = Absent
    /\ total_size = 0
    /\ downloaded = 0
    /\ chunks_read = 0
    /\ sink = <<>>
    /\ pc = "send"
    /\ failed_at = "none"
    /\ result = Pending

(***************************************************************************)
(* Part 5.  traits.rs: building a Progress value.                          *)
(***************************************************************************)
VARIABLES input, progress, built

progVars == <<input, progress, built>>

\* f32 arguments of Progress::new: below, at and above the two ends of the
\* range, inside it, and NaN
F32Inputs ==
    {F32(0 - 1), [nan |-> FALSE, v |-> 0 - 1], F32(0), F32(50), F32(100),
     [nan |-> FALSE, v |-> F32(100).v + 1], F32(101), NaN}

NoProgress ==
    [current |-> F32(0), total_bytes |-> None, processed_bytes |-> 0,
     message |-> None]

Messages == {"Checking system information...", "Installation complete!"}

\* let p = Progress::new(current)
Progress_new_call(current) ==
    /\ built = 0
    /\ input' = current
    /\ progress' = Progress_new(current)
    /\ built' = 1

\* p.with_total_bytes(total)
with_total_bytes_call(total) ==
    /\ built > 0 /\ built < MaxBuilders
    /\ progress' = with_total_bytes(progress, total)
    /\ built' = built + 1
    /\ UNCHANGED input

\* p.with_processed_bytes(processed)
with_processed_bytes_call(processed) ==
    /\ built > 0 /\ built < MaxBuilders
    /\ progress' = with_processed_bytes(progress, processed)
    /\ built' = built + 1
    /\ UNCHANGED input

\* p.with_message(message)
with_message_call(message) ==
    /\ built > 0 /\ built < MaxBuilders
    /\ progress' = with_message(progress, message)
    /\ built' = built + 1
    /\ UNCHANGED input

ProgInit ==
    /\ input = F32(0)
    /\ progress = NoProgress
    /\ built = 0

(***************************************************************************)
(* Part 6.  config.rs and ui/components.rs: the size of a selection.       *)
(***************************************************************************)
VARIABLES catalog, selected_components, config_total_size, view_total_size,
          last_call, calculated

cfgVars == <<catalog, selected_components, config_total_size, view_total_size,
             last_call, calculated>>

\* component ids: two the catalog can hold and one it never holds
CatalogIds == {"core", "examples"}
ComponentIds == CatalogIds \cup {"plugins"}

\* ComponentInstaller values by id() and size_bytes()
Components == [id : CatalogIds, size_bytes : 1 .. MaxSize]

SeqsUpTo(S, n) == UNION {[1 .. k -> S] : k \in 0 .. n}

\* Vec::contains / HashSet::contains
contains(selected, id) == \E j \in 1 .. Len(selected) : selected[j] = id

\* a total that counts a component once for every time its id is selected
RECURSIVE calculate_total_size_per_selection(_, _)
calculate_total_size_per_selection(components, selected) ==
    IF selected = <<>> THEN 0
    ELSE LET RECURSIVE SizeOf(_)
             SizeOf(cs) ==
                 IF cs = <<>> THEN 0
                 ELSE (IF Head(cs).id = Head(selected) THEN Head(cs).size_bytes ELSE 0)
                      + SizeOf(Tail(cs))
         IN  SizeOf(components)
             + calculate_total_size_per_selection(components, Tail(selected))

\* components.iter().filter(|c| selected.contains(c.id)).map(size).sum()
RECURSIVE calculate_total_size(_, _)
calculate_total_size(components, selected) ==
    IF components = <<>> THEN 0
    ELSE (IF contains(selected, Head(components).id)
          THEN Head(components).size_bytes ELSE 0)
         + calculate_total_size(Tail(components), selected)

\* the total of a view that has not been rendered
NotCalculated == 0 - 1

\* InstallerConfig::calculate_total_size
InstallerConfig_calculate_total_size ==
    /\ config_total_size' = calculate_total_size(catalog, selected_components)
    /\ last_call' = "calculate_total_size"
    /\ calculated' = TRUE
    /\ UNCHANGED <<catalog, selected_components, view_total_size>>

\* ConfigManager::set_selected_components
set_selected_components(components) ==
    /\ selected_components # components
    /\ selected_components' = components
    /\ last_call' = "set_selected_components"
    /\ UNCHANGED <<catalog, config_total_size, view_total_size, calculated>>

\* ConfigManager::total_size
total_size_getter == config_total_size

\* ComponentsView::render -> ComponentsView::calculate_total_size, on the
\* HashSet of the selected ids
ComponentsView_calculate_total_size ==
    /\ view_total_size' = calculate_total_size(catalog, selected_components)
    /\ last_call' = "render"
    /\ UNCHANGED <<catalog, selected_components, config_total_size, calculated>>

\* InstallerConfig::new: no component selected, total_size 0
InstallerConfig_new ==
    /\ selected_components = <<>>
    /\ config_total_size = 0
    /\ view_total_size = NotCalculated
    /\ last_call = "new"
    /\ calculated = FALSE

CfgInit ==
    /\ catalog \in SeqsUpTo(Components, MaxComponents)
    /\ InstallerConfig_new

CfgIdle ==
    /\ catalog = <<>>
    /\ InstallerConfig_new

(***************************************************************************)
(* Part 7.  ui/app.rs, ui/components.rs and config.rs: the pages of        *)
(* InstallerApp, the selection of ComponentsView, and its configuration.   *)
(***************************************************************************)
VARIABLES current_page, selected, config_validation

appVars == <<current_page, selected, config_validation>>

\* ComponentsView::new: the components offered
ViewComponents ==
    <<[id |-> "core", size_mb |-> 850, required |-> TRUE],
      [id |-> "editor", size_mb |-> 650, required |-> FALSE],
      [id |-> "docs", size_mb |-> 120, required |-> FALSE],
      [id |-> "examples", size_mb |-> 450, required |-> FALSE],
      [id |-> "tools", size_mb |-> 280, required |-> FALSE]>>

\* ComponentsView::new: the required components are selected by default
ComponentsView_new == {c.id : c \in {d \in Range(ViewComponents) : d.required}}

\* the callbacks InstallerApp::render_page gives the views, which call
\* navigate_to
on_next ==
    /\ current_page \in {"Welcome", "License", "PathSelection", "Components"}
    /\ current_page' = CASE current_page = "Welcome" -> "License"
                         [] current_page = "License" -> "PathSelection"
                         [] current_page = "PathSelection" -> "Components"
                         [] current_page = "Components" -> "Installation"
    /\ UNCHANGED <<selected, config_validation>>

on_back ==
    /\ current_page \in {"License", "PathSelection", "Components"}
    /\ current_page' = CASE current_page = "License" -> "Welcome"
                         [] current_page = "PathSelection" -> "License"
                         [] current_page = "Components" -> "PathSelection"
    /\ UNCHANGED <<selected, config_validation>>

\* InstallerApp::render_page on the Components page builds a new
\* ComponentsView
render_page ==
    /\ current_page = "Components"
    /\ selected' = ComponentsView_new
    /\ UNCHANGED <<current_page, config_validation>>

\* the on_click handler of a component's checkbox
Checkbox_on_click(component) ==
    /\ current_page = "Components"
    /\ selected' = IF ~component.required
                   THEN IF component.id \in selected
                        THEN selected \ {component.id}
                        ELSE selected \cup {component.id}
                   ELSE selected
    /\ UNCHANGED <<current_page, config_validation>>

\* a relative path, next to the absolute ones of InstallPaths
RelativePath == "pulsar"

\* Path::is_absolute
is_absolute(path) == path # RelativePath

\* InstallerConfig::validate with the path tested first
validate_path_first(selection, path) ==
    IF ~is_absolute(path) THEN "InvalidPath"
    ELSE IF selection = <<>> THEN "Config"
    ELSE "none"

\* InstallerConfig::validate
validate(selection, path) ==
    IF selection = <<>> THEN "Config"
    ELSE IF ~is_absolute(path) THEN "InvalidPath"
    ELSE "none"

\* a call of InstallerConfig::validate, kept with what it looked at
InstallerConfig_validate ==
    /\ config_validation' = [err |-> validate(selected_components, install_path),
                             selection |-> selected_components,
                             path |-> install_path]
    /\ UNCHANGED <<current_page, selected>>

\* InstallerApp::new
AppInit ==
    /\ current_page = "Welcome"
    /\ selected = ComponentsView_new
    /\ config_validation = [err |-> "not_run", selection |-> <<>>,
                            path |-> DefaultInstallPath]

(***************************************************************************)
(* Part 8.  platform/{linux,macos,windows}.rs and uninstaller.rs: the      *)
(* uninstall metadata a platform install writes and from_metadata reads.   *)
(***************************************************************************)
VARIABLES platform, installer, metadata_file, uninstaller

metaVars == <<platform, installer, metadata_file, uninstaller>>

Platforms == {"linux", "macos", "windows"}
Versions == {"0.1.0", "0.2.0", "1.0.0"}
Dates == {"2026-01-01T00:00:00+00:00", "2026-06-01T00:00:00+00:00"}

\* the keys the three writers and the reader use
MetadataKeys ==
    {"app_name", "version", "install_path", "install_date", "binary_path",
     "desktop_entry", "icon_dir", "system_install", "bundle_identifier",
     "app_bundle_path", "start_menu_shortcut", "registry_key"}

\* serde_json::Value::Null, what indexing an object by a missing key gives
Null == "null"

Object(pairs) ==
    [k \in MetadataKeys |-> IF k \in DOMAIN pairs THEN pairs[k] ELSE Null]

\* the installers: LinuxInstaller::new(version, use_system_directories),
\* MacOSInstaller::new(app_bundle_path, version, binary_name),
\* WindowsInstaller::new(install_path, version); path is the binary path, the
\* bundle path or the install path
Installers ==
    {i \in [platform : Platforms, version : Versions, system : BOOLEAN,
            path : {"/usr/bin/pulsar", "~/.local/bin/pulsar",
                    "/Applications/Pulsar.app", "~/Applications/Pulsar.app",
                    "%LOCALAPPDATA%/Programs/Pulsar", "D:/Pulsar"}] :
        /\ i.platform = "linux"
           => i.path = (IF i.system THEN "/usr/bin/pulsar" ELSE "~/.local/bin/pulsar")
        /\ i.platform = "macos"
           => (~i.system /\ i.path \in {"/Applications/Pulsar.app", "~/Applications/Pulsar.app"})
        /\ i.platform = "windows"
           => (~i.system /\ i.path \in {"%LOCALAPPDATA%/Programs/Pulsar", "D:/Pulsar"})}

\* LinuxInstaller / MacOSInstaller / WindowsInstaller::write_uninstall_metadata
write_uninstall_metadata(i, date) ==
    IF i.platform = "linux"
    THEN Object([app_name |-> "Pulsar", version |-> i.version,
                 binary_path |-> i.path,
                 desktop_entry |-> IF i.system
                                   THEN "/usr/share/applications/pulsar.desktop"
                                   ELSE "~/.local/share/applications/pulsar.desktop",
                 icon_dir |-> IF i.system THEN "/usr/share/icons/hicolor"
                              ELSE "~/.local/share/icons/hicolor",
                 system_install |-> IF i.system THEN "true" ELSE "false",
                 install_date |-> date])
    ELSE IF i.platform = "macos"
    THEN Object([app_name |-> "Pulsar", bundle_identifier |-> "com.pulsar.engine",
                 version |-> i.version, app_bundle_path |-> i.path,
                 install_date |-> date])
    ELSE Object([app_name |-> "Pulsar", version |-> i.version,
                 install_path |-> i.path,
                 start_menu_shortcut |-> "Pulsar.lnk",
                 registry_key |-> "Uninstall\\Pulsar",
                 install_date |-> date])

NoFile == Object([app_name |-> Null])

NotLoaded == [err |-> "not_run", install_path |-> Null, version |-> Null]

\* the last step of LinuxInstaller / MacOSInstaller / WindowsInstaller::install
PlatformInstaller_install ==
    /\ metadata_file = NoFile
    /\ \E date \in Dates : metadata_file' = write_uninstall_metadata(installer, date)
    /\ UNCHANGED <<platform, installer, uninstaller>>

\* Uninstaller::from_metadata on the parsed object
from_metadata(metadata) ==
    IF metadata["install_path"] = Null
    THEN [err |-> "Config", install_path |-> Null, version |-> Null]
    ELSE [err |-> "none",
          install_path |-> metadata["install_path"],
          version |-> IF metadata["version"] = Null THEN "unknown"
                      ELSE metadata["version"]]

\* Uninstaller::from_metadata(metadata_path)
Uninstaller_from_metadata ==
    /\ uninstaller = NotLoaded
    /\ uninstaller' = IF metadata_file = NoFile
                      THEN [err |-> "Io", install_path |-> Null, version |-> Null]
                      ELSE from_metadata(metadata_file)
    /\ UNCHANGED <<platform, installer, metadata_file>>

MetaInit ==
    /\ installer \in Installers
    /\ platform = installer.platform
    /\ metadata_file = NoFile
    /\ uninstaller = NotLoaded

MetaIdle ==
    /\ installer = [platform |-> "linux", version |-> "0.1.0", system |-> FALSE,
                    path |-> "~/.local/bin/pulsar"]
    /\ platform = "linux"
    /\ metadata_file = NoFile
    /\ uninstaller = NotLoaded

(***************************************************************************)
(* Part 9.  ui/installer_view.rs: InstallerView, its installation run.     *)
(***************************************************************************)
VARIABLES view_page, releases, install_progress, install_message,
          task_pc, selected_releases, releases_with_assets, install_total_size,
          downloaded_bytes, idx, processed_bytes, events

runVars ==
    <<view_page, releases, install_progress, install_message,
      task_pc, selected_releases, releases_with_assets, install_total_size,
      downloaded_bytes, idx, processed_bytes, events>>

\* ReleaseInfo: tag_name numbers the release, name follows the tag
ReleaseInfo(tag, sel) == [tag_name |-> tag, selected |-> sel]

\* the lists of up to n releases the version page can show
ReleaseLists(n) ==
    UNION {{[i \in 1 .. k |-> ReleaseInfo(i, s[i])] : s \in [1 .. k -> BOOLEAN]} :
           k \in 0 .. n}

\* InstallerView::new
InstallerView_new ==
    /\ view_page = "Welcome"
    /\ releases = <<>>
    /\ install_progress = F32(0)
    /\ install_message = ""

TaskIdle ==
    /\ task_pc = "none"
    /\ selected_releases = <<>>
    /\ releases_with_assets = <<>>
    /\ install_total_size = 0
    /\ downloaded_bytes = 0
    /\ idx = 0
    /\ processed_bytes = 0
    /\ events = <<>>

\* releases.iter().filter(|r| r.selected), lines 179-188
RECURSIVE SelectedOf(_)
SelectedOf(list) ==
    IF list = <<>> THEN <<>>
    ELSE (IF Head(list).selected THEN <<Head(list)>> ELSE <<>>) \o SelectedOf(Tail(list))

\* the overall progress the download callback stores (lines 263-268)
overall_progress(current_bytes, total) ==
    IF total > 0
    THEN [nan |-> FALSE, v |-> (current_bytes * F32(100).v) \div total]
    ELSE F32(0)

\* the install button of the version page: navigate_to(Installing), then
\* start_installation up to the spawn of the task
start_installation ==
    /\ view_page = "VersionSelection"
    /\ view_page' = "Installing"
    /\ install_progress' = F32(0)
    /\ LET chosen == SelectedOf(releases) IN
       /\ selected_releases' = chosen
       /\ install_message' = IF chosen = <<>> THEN "No versions selected"
                             ELSE "Starting installation..."
       /\ task_pc' = IF chosen = <<>> THEN "returned" ELSE "create_dir"
    /\ UNCHANGED <<releases, releases_with_assets, install_total_size,
                   downloaded_bytes, idx, processed_bytes, events>>

\* the task: create_dir_all(download_dir), lines 204-212
Task_create_download_dir ==
    /\ task_pc = "create_dir"
    /\ \E ok \in BOOLEAN :
          IF ok
          THEN /\ task_pc' = "details"
               /\ idx' = 1
               /\ UNCHANGED install_message
          ELSE /\ task_pc' = "returned"
               /\ install_message' = "Failed to create download directory"
               /\ UNCHANGED idx
    /\ UNCHANGED <<view_page, releases, install_progress, selected_releases,
                   releases_with_assets, install_total_size, downloaded_bytes,
                   processed_bytes, events>>

NoAsset == 0 - 1

\* the task: one turn of the loop over the selected releases, lines 218-237;
\* asset is the size of the first asset of the matching release, NoAsset when
\* there is no matching release or it has no asset
Task_release_details ==
    /\ task_pc = "details"
    /\ idx <= Len(selected_releases)
    /\ \/ /\ task_pc' = "returned"
          /\ install_message' = "Failed to fetch release details"
          /\ UNCHANGED <<idx, releases_with_assets, install_total_size>>
       \/ \E asset \in {NoAsset} \cup (0 .. MaxAssetSize) :
             /\ idx' = idx + 1
             /\ releases_with_assets' =
                   IF asset = NoAsset THEN releases_with_assets
                   ELSE Append(releases_with_assets,
                               [tag_name |-> selected_releases[idx].tag_name,
                                size |-> asset])
             /\ install_total_size' =
                   IF asset = NoAsset THEN install_total_size
                   ELSE install_total_size + asset
             /\ UNCHANGED <<task_pc, install_message>>
    /\ UNCHANGED <<view_page, releases, install_progress, selected_releases,
                   downloaded_bytes, processed_bytes, events>>

\* the task: the head of the loop over releases_with_assets, lines 241-258,
\* and the navigation after its last turn, lines 325-331
Task_next_release ==
    /\ task_pc \in {"details", "next"}
    /\ task_pc = "details" => idx > Len(selected_releases)
    /\ LET i == IF task_pc = "details" THEN 1 ELSE idx IN
       IF i <= Len(releases_with_assets)
       THEN /\ idx' = i
            /\ task_pc' = "download"
            /\ install_message' = "Downloading"
            /\ processed_bytes' = 0
            /\ UNCHANGED <<view_page, install_progress>>
       ELSE /\ idx' = i
            /\ task_pc' = "returned"
            /\ install_progress' = F32(100)
            /\ view_page' = "Complete"
            /\ UNCHANGED <<install_message, processed_bytes>>
    /\ UNCHANGED <<releases, selected_releases, releases_with_assets,
                   install_total_size, downloaded_bytes, events>>

\* the progress callback of download, lines 262-281, called by download_impl
\* after each chunk with the bytes received so far
Task_download_progress ==
    /\ task_pc = "download"
    /\ \E n \in 1 .. (MaxReceived - processed_bytes) :
          /\ processed_bytes' = processed_bytes + n
          /\ install_progress' =
                overall_progress(downloaded_bytes + processed_bytes + n,
                                 install_total_size)
    /\ install_message' = "Downloading (percent)"
    /\ UNCHANGED <<view_page, releases, task_pc, selected_releases,
                   releases_with_assets, install_total_size, downloaded_bytes,
                   idx, events>>

\* the result of download, lines 284-294 and 314-321
Task_download_result ==
    /\ task_pc = "download"
    /\ \E ok \in BOOLEAN :
          /\ events' = Append(events, [release |-> idx, op |-> "download", ok |-> ok])
          /\ IF ok
             THEN /\ downloaded_bytes' = downloaded_bytes + releases_with_assets[idx].size
                  /\ install_message' = "Installing"
                  /\ task_pc' = "install"
                  /\ UNCHANGED idx
             ELSE /\ install_message' = "Download failed"
                  /\ task_pc' = "next"
                  /\ idx' = idx + 1
                  /\ UNCHANGED downloaded_bytes
    /\ UNCHANGED <<view_page, releases, install_progress, selected_releases,
                   releases_with_assets, install_total_size, processed_bytes>>

\* the result of install_release, lines 295-312
Task_install_result ==
    /\ task_pc = "install"
    /\ \E ok \in BOOLEAN :
          /\ events' = Append(events, [release |-> idx, op |-> "install", ok |-> ok])
          /\ install_message' = IF ok THEN "Installed" ELSE "Installation failed"
    /\ task_pc' = "next"
    /\ idx' = idx + 1
    /\ UNCHANGED <<view_page, releases, install_progress, selected_releases,
                   releases_with_assets, install_total_size, downloaded_bytes,
                   processed_bytes>>

RunInit ==
    /\ view_page = "VersionSelection"
    /\ releases \in ReleaseLists(MaxReleases)
    /\ install_progress = F32(0)
    /\ install_message = ""
    /\ TaskIdle

RunIdle == InstallerView_new /\ TaskIdle

(***************************************************************************)
(* Part 10.  ui/installer_view.rs: the list of releases of the version     *)
(* page, its handlers and the completions of the requests they spawn.      *)
(***************************************************************************)
VARIABLES loading_releases, loading_more, current_releases_page,
          has_more_releases, fetch_inflight, more_inflight, requests_sent

listVars ==
    <<loading_releases, loading_more, current_releases_page,
      has_more_releases, fetch_inflight, more_inflight, requests_sent>>

\* what a handler of the version page leaves alone of the installation run
runRest ==
    <<install_progress, install_message, task_pc, selected_releases,
      releases_with_assets, install_total_size, downloaded_bytes, idx,
      processed_bytes, events>>

\* per_page of get_releases_page(page, 30), scaled down
PerPage == 2

\* no load_more request in flight
NoPage == 0

\* the releases page `page` of the repository holds when it has k of them
PageOfReleases(page, k) ==
    [j \in 1 .. k |-> ReleaseInfo((page - 1) * PerPage + j, FALSE)]

\* InstallerView::new, the fields of the list
InstallerView_new_list ==
    /\ loading_releases = FALSE
    /\ loading_more = FALSE
    /\ current_releases_page = 0
    /\ has_more_releases = TRUE
    /\ fetch_inflight = 0
    /\ more_inflight = NoPage
    /\ requests_sent = 0

\* InstallerView::fetch_releases up to the spawn
fetch_releases ==
    /\ requests_sent < MaxRequests
    /\ loading_releases' = TRUE
    /\ current_releases_page' = 1
    /\ releases' = <<>>
    /\ fetch_inflight' = fetch_inflight + 1
    /\ requests_sent' = requests_sent + 1
    /\ UNCHANGED <<loading_more, has_more_releases, more_inflight>>

\* InstallerView::load_more_releases up to the spawn
load_more_releases ==
    /\ requests_sent < MaxRequests
    /\ ~(loading_more \/ ~has_more_releases)
    /\ loading_more' = TRUE
    /\ current_releases_page' = current_releases_page + 1
    /\ more_inflight' = current_releases_page + 1
    /\ requests_sent' = requests_sent + 1
    /\ UNCHANGED <<releases, loading_releases, has_more_releases, fetch_inflight>>

\* the button of the welcome page, lines 499-502
Welcome_on_click ==
    /\ view_page = "Welcome"
    /\ view_page' = "VersionSelection"
    /\ fetch_releases
    /\ UNCHANGED runRest

\* retry-btn, shown when nothing is loading and the list is empty
Retry_on_click ==
    /\ view_page = "VersionSelection"
    /\ ~loading_releases
    /\ releases = <<>>
    /\ fetch_releases
    /\ UNCHANGED <<view_page, runRest>>

\* load-more-btn, shown under a list that is not empty
LoadMore_on_click ==
    /\ view_page = "VersionSelection"
    /\ ~loading_releases
    /\ releases # <<>>
    /\ has_more_releases \/ loading_more
    /\ load_more_releases
    /\ UNCHANGED <<view_page, runRest>>

\* back-btn of the version page
Back_on_click ==
    /\ view_page = "VersionSelection"
    /\ view_page' = "Welcome"
    /\ UNCHANGED <<releases, runRest, listVars>>

\* the task of fetch_releases when get_releases_page(1, 30) returns
Fetch_completes ==
    /\ fetch_inflight > 0
    /\ fetch_inflight' = fetch_inflight - 1
    /\ loading_releases' = FALSE
    /\ \/ \E k \in 0 .. PerPage :
             /\ releases' = PageOfReleases(1, k)
             /\ has_more_releases' = (k >= PerPage)
       \/ UNCHANGED <<releases, has_more_releases>>
    /\ UNCHANGED <<view_page, runRest, loading_more, current_releases_page,
                   more_inflight, requests_sent>>

\* the task of load_more_releases when get_releases_page(page, 30) returns
LoadMore_completes ==
    /\ more_inflight # NoPage
    /\ more_inflight' = NoPage
    /\ loading_more' = FALSE
    /\ \/ \E k \in 0 .. PerPage :
             /\ releases' = releases \o PageOfReleases(more_inflight, k)
             /\ has_more_releases' = (k >= PerPage)
             /\ UNCHANGED current_releases_page
       \/ /\ current_releases_page' = current_releases_page - 1
          /\ UNCHANGED <<releases, has_more_releases>>
    /\ UNCHANGED <<view_page, runRest, loading_releases, fetch_inflight,
                   requests_sent>>

ListInit == InstallerView_new /\ TaskIdle /\ InstallerView_new_list

(***************************************************************************)
(* Part 11.  The two extraction paths: ExtractFilesStep::execute and        *)
(* InstallerView::install_release, and what each does with an archive.     *)
(***************************************************************************)
VARIABLES archive_path, step_handling, view_handling

archVars == <<archive_path, step_handling, view_handling>>

\* the parts a file name can have after its stem
NameParts == {"tar", "gz", "tgz", "zip", "exe", "txt"}

\* file names as their dot-separated parts, the stem first
FileNames == {<<"pulsar">> \o rest : rest \in SeqsUpTo(NameParts, MaxParts)}

\* str::ends_with(".tar.gz") on the path
ends_with_tar_gz(name) ==
    /\ Len(name) >= 3
    /\ name[Len(name) - 1] = "tar"
    /\ name[Len(name)] = "gz"

\* ExtractFilesStep::execute: the match on the extension
extract_files_handling(name) ==
    IF Extension(name) \in {"gz", "tgz"} THEN "tar_gz" ELSE "Err(Other)"

\* InstallerView::install_release: the if chain on the archive path
install_release_handling(name) ==
    IF Extension(name) = "exe" THEN "copy"
    ELSE IF ends_with_tar_gz(name) THEN "tar_gz"
    ELSE IF Extension(name) = "zip" THEN "zip"
    ELSE "nothing"

NotHandled == "not_run"

ExtractFilesStep_handles ==
    /\ step_handling = NotHandled
    /\ step_handling' = extract_files_handling(archive_path)
    /\ UNCHANGED <<archive_path, view_handling>>

install_release_handles ==
    /\ view_handling = NotHandled
    /\ view_handling' = install_release_handling(archive_path)
    /\ UNCHANGED <<archive_path, step_handling>>

ArchInit ==
    /\ archive_path \in FileNames
    /\ step_handling = NotHandled
    /\ view_handling = NotHandled

ArchIdle ==
    /\ archive_path = <<"pulsar">>
    /\ step_handling = NotHandled
    /\ view_handling = NotHandled

(***************************************************************************)
(* Specifications.                                                         *)
(***************************************************************************)
vars == <<seqVars, fsVars, reqVars, dlVars, progVars, cfgVars, appVars, metaVars, runVars, listVars, archVars>>

\* the variables each part leaves alone
exceptSeq == <<fsVars, reqVars, dlVars, progVars, cfgVars, appVars, metaVars, runVars, listVars, archVars>>
exceptFs == <<seqVars, reqVars, dlVars, progVars, cfgVars, appVars, metaVars, runVars, listVars, archVars>>
exceptReq == <<seqVars, fsVars, dlVars, progVars, cfgVars, appVars, metaVars, runVars, listVars, archVars>>
exceptDl == <<seqVars, fsVars, reqVars, progVars, cfgVars, appVars, metaVars, runVars, listVars, archVars>>
exceptProg == <<seqVars, fsVars, reqVars, dlVars, cfgVars, appVars, metaVars, runVars, listVars, archVars>>
exceptApp == <<seqVars, fsVars, reqVars, dlVars, progVars, cfgVars, metaVars, runVars, listVars, archVars>>
exceptCfg == <<seqVars, fsVars, reqVars, dlVars, progVars, appVars, metaVars, runVars, listVars, archVars>>
exceptMeta == <<seqVars, fsVars, reqVars, dlVars, progVars, cfgVars, appVars, runVars, listVars, archVars>>
exceptRun == <<seqVars, fsVars, reqVars, dlVars, progVars, cfgVars, appVars, metaVars, listVars, archVars>>
exceptView == <<seqVars, fsVars, reqVars, dlVars, progVars, cfgVars, appVars, metaVars, archVars>>
exceptArch == <<seqVars, fsVars, reqVars, dlVars, progVars, cfgVars, appVars, metaVars, runVars, listVars>>

\* Part 1: a StepSequence and the trait calls made on its steps
Init == SeqNew /\ FsIdle /\ ReqIdle /\ DlIdle /\ ProgInit /\ CfgIdle /\ AppInit /\ MetaIdle /\ RunIdle /\ InstallerView_new_list /\ ArchIdle

Next ==
    \/ \E s \in StepImpls : add_step(s) /\ UNCHANGED exceptSeq
    \/ \E i \in 1 .. Len(steps) : can_execute(i) /\ UNCHANGED exceptSeq
    \/ \E i \in 1 .. Len(steps), r \in {"Ok"} \cup ExecErrors :
           execute(i, r) /\ UNCHANGED exceptSeq
    \/ \E i \in 1 .. Len(steps), r \in {"Ok"} \cup RollbackErrors :
           rollback(i, r) /\ UNCHANGED exceptSeq

Spec == Init /\ [][Next]_vars

\* Part 2: the built-in steps and the verified download on a filesystem
InitFs == SeqNew /\ FsInit /\ ReqIdle /\ DlIdle /\ ProgInit /\ CfgIdle /\ AppInit /\ MetaIdle /\ RunIdle /\ InstallerView_new_list /\ ArchIdle

NextFs ==
    \/ CreateDirectoriesStep_execute /\ UNCHANGED exceptFs
    \/ CreateDirectoriesStep_rollback /\ UNCHANGED exceptFs
    \/ ExtractFilesStep_execute /\ UNCHANGED exceptFs
    \/ ExtractFilesStep_rollback /\ UNCHANGED exceptFs
    \/ CreateShortcutsStep_execute /\ UNCHANGED exceptFs
    \/ CreateShortcutsStep_rollback /\ UNCHANGED exceptFs
    \/ FinalizeStep_execute /\ UNCHANGED exceptFs
    \/ FinalizeStep_rollback /\ UNCHANGED exceptFs
    \/ HttpDownloadManager_download_with_verification /\ UNCHANGED exceptFs

SpecFs == InitFs /\ [][NextFs]_vars

\* Part 3: requirement checking over all requirements and probes
InitReq == SeqNew /\ FsIdle /\ ReqInit /\ DlIdle /\ ProgInit /\ CfgIdle /\ AppInit /\ MetaIdle /\ RunIdle /\ InstallerView_new_list /\ ArchIdle

NextReq ==
    \/ CheckRequirementsStep_execute /\ UNCHANGED exceptReq
    \/ \E path \in InstallPaths : set_install_path(path) /\ UNCHANGED exceptReq
    \/ validate_install_path /\ UNCHANGED exceptReq

SpecReq == InitReq /\ [][NextReq]_vars

\* Part 4: one download, step by step
InitDl == SeqNew /\ FsIdle /\ ReqIdle /\ DlInit /\ ProgInit /\ CfgIdle /\ AppInit /\ MetaIdle /\ RunIdle /\ InstallerView_new_list /\ ArchIdle

NextDl ==
    \/ Dl_send /\ UNCHANGED exceptDl
    \/ Dl_create /\ UNCHANGED exceptDl
    \/ Dl_loop /\ UNCHANGED exceptDl
    \/ Dl_flush /\ UNCHANGED exceptDl
    \/ Dl_verify /\ UNCHANGED exceptDl

SpecDl == InitDl /\ [][NextDl]_vars

\* Part 5: a Progress value built by new and the builders
InitProgress == SeqNew /\ FsIdle /\ ReqIdle /\ DlIdle /\ ProgInit /\ CfgIdle /\ AppInit /\ MetaIdle /\ RunIdle /\ InstallerView_new_list /\ ArchIdle

NextProgress ==
    \/ \E c \in F32Inputs :
           Progress_new_call(c) /\ UNCHANGED exceptProg
    \/ \E total \in 0 .. MaxBody :
           with_total_bytes_call(total) /\ UNCHANGED exceptProg
    \/ \E processed \in 0 .. MaxBody :
           with_processed_bytes_call(processed) /\ UNCHANGED exceptProg
    \/ \E message \in Messages :
           with_message_call(message) /\ UNCHANGED exceptProg

SpecProgress == InitProgress /\ [][NextProgress]_vars

\* Part 6: the size of a selection of components
InitConfig == SeqNew /\ FsIdle /\ ReqIdle /\ DlIdle /\ ProgInit /\ CfgInit /\ AppInit /\ MetaIdle /\ RunIdle /\ InstallerView_new_list /\ ArchIdle

NextConfig ==
    \/ InstallerConfig_calculate_total_size /\ UNCHANGED exceptCfg
    \/ ComponentsView_calculate_total_size /\ UNCHANGED exceptCfg
    \/ \E components \in SeqsUpTo(ComponentIds, MaxSelected) :
           set_selected_components(components) /\ UNCHANGED exceptCfg

SpecConfig == InitConfig /\ [][NextConfig]_vars

\* Part 7: InstallerApp with its ComponentsView and its configuration
InitApp == SeqNew /\ FsIdle /\ ReqIdle /\ DlIdle /\ ProgInit /\ CfgIdle /\ AppInit /\ MetaIdle /\ RunIdle /\ InstallerView_new_list /\ ArchIdle

NextApp ==
    \/ on_next /\ UNCHANGED exceptApp
    \/ on_back /\ UNCHANGED exceptApp
    \/ render_page /\ UNCHANGED exceptApp
    \/ \E component \in Range(ViewComponents) :
           Checkbox_on_click(component) /\ UNCHANGED exceptApp
    \/ \E components \in SeqsUpTo(ComponentIds, 1) :
           set_selected_components(components) /\ UNCHANGED <<exceptCfg>>
    \/ \E path \in InstallPaths \cup {RelativePath} :
           set_install_path(path) /\ UNCHANGED <<exceptReq>>
    \/ InstallerConfig_validate /\ UNCHANGED exceptApp

SpecApp == InitApp /\ [][NextApp]_vars

\* Part 8: a platform install writing the metadata the uninstaller reads
InitMeta ==
    SeqNew /\ FsIdle /\ ReqIdle /\ DlIdle /\ ProgInit /\ CfgIdle /\ AppInit /\ MetaInit /\ RunIdle /\ InstallerView_new_list /\ ArchIdle

NextMeta ==
    \/ PlatformInstaller_install /\ UNCHANGED exceptMeta
    \/ Uninstaller_from_metadata /\ UNCHANGED exceptMeta

SpecMeta == InitMeta /\ [][NextMeta]_vars

\* Part 9: one installation run of the view
InitRun ==
    SeqNew /\ FsIdle /\ ReqIdle /\ DlIdle /\ ProgInit /\ CfgIdle /\ AppInit /\ MetaIdle /\ RunInit /\ InstallerView_new_list /\ ArchIdle

NextRun ==
    \/ start_installation /\ UNCHANGED exceptRun
    \/ Task_create_download_dir /\ UNCHANGED exceptRun
    \/ Task_release_details /\ UNCHANGED exceptRun
    \/ Task_next_release /\ UNCHANGED exceptRun
    \/ Task_download_progress /\ UNCHANGED exceptRun
    \/ Task_download_result /\ UNCHANGED exceptRun
    \/ Task_install_result /\ UNCHANGED exceptRun

SpecRun == InitRun /\ [][NextRun]_vars

\* Part 10: the version page, its handlers and the completions of requests
InitList ==
    SeqNew /\ FsIdle /\ ReqIdle /\ DlIdle /\ ProgInit /\ CfgIdle /\ AppInit /\ MetaIdle /\ ListInit /\ ArchIdle

NextList ==
    \/ Welcome_on_click /\ UNCHANGED exceptView
    \/ Retry_on_click /\ UNCHANGED exceptView
    \/ LoadMore_on_click /\ UNCHANGED exceptView
    \/ Back_on_click /\ UNCHANGED exceptView
    \/ Fetch_completes /\ UNCHANGED exceptView
    \/ LoadMore_completes /\ UNCHANGED exceptView

SpecList == InitList /\ [][NextList]_vars

\* Part 11: both extraction paths applied to one archive
InitArchive ==
    SeqNew /\ FsIdle /\ ReqIdle /\ DlIdle /\ ProgInit /\ CfgIdle /\ AppInit /\ MetaIdle /\ RunIdle /\ InstallerView_new_list /\ ArchInit

NextArchive ==
    \/ ExtractFilesStep_handles /\ UNCHANGED exceptArch
    \/ install_release_handles /\ UNCHANGED exceptArch

SpecArchive == InitArchive /\ [][NextArchive]_vars

\* the task is polled by the executor until it returns: every network and
\* filesystem call returns
SpecRunFair == SpecRun /\ WF_vars(NextRun)

(***************************************************************************)
(* Claims about the step pipeline (Part 1, specification Spec).            *)
(*                                                                         *)
(* Every handler of the model runs to its return, so a state of the model  *)
(* is a state in which control is back with the caller.  A sequence that   *)
(* ran its steps and unwound them inside one call would show the whole     *)
(* unwind in every state that follows a failure.                           *)
(***************************************************************************)
CallsOf(op) == SelectSeq(calls, LAMBDA c : c.op = op)

\* the step indices of the rollback calls, in call order
RolledBack == [n \in 1 .. Len(CallsOf("rollback")) |-> CallsOf("rollback")[n].idx]

\* <<n, n-1, ..., 1>>
Descending(n) == [j \in 1 .. n |-> n + 1 - j]

Executed(i) == \E p \in DOMAIN calls : calls[p].op = "execute" /\ calls[p].idx = i

Succeeded(i) == \E p \in DOMAIN calls : calls[p] = Call("execute", i, "Ok")

Skipped(i) == \E p \in DOMAIN calls : calls[p] = Call("can_execute", i, FALSE)

\* The calls so far are execute on the steps 1 .. k in index order, each once
\* and each on a step whose can_execute is true, the first k-1 with success
\* and step k with an error (step k is the first to fail), followed by the
\* rollback calls `rb`.
FailedAt(k, rb) ==
    /\ k >= 1
    /\ Len(calls) = k + Len(rb)
    /\ \A n \in 1 .. k : calls[n].op = "execute" /\ calls[n].idx = n /\ steps[n].can
    /\ \A n \in 1 .. k - 1 : calls[n].res = "Ok"
    /\ calls[k].res \in ExecErrors
    /\ \A n \in 1 .. Len(rb) : calls[k + n] = rb[n]

\* C1: when execute of step k, the first to fail, has returned its error,
\* rollback has been invoked on exactly the steps k-1, k-2, ..., 1, each once
\* and in that order, and on no step from k on.  (The sequence keeps no Failed
\* state that could be read, so the formula states the rollback sweep.)
C1_RollbackSweepOnFailure ==
    \A k \in 1 .. Len(steps) : FailedAt(k, <<>>) => RolledBack = Descending(k - 1)

\* C3: a step whose can_execute returned false and that was not executed has
\* been skipped: the cursor has advanced past it.
C3_SkipAdvancesCursor ==
    \A i \in 1 .. Len(steps) : (Skipped(i) /\ ~Executed(i)) => current_step >= i

\* C5: when step k has failed and the rollback of step k-1 has failed in the
\* unwind, every step before k has still been rolled back.
C5_RollbackFailureDoesNotStopSweep ==
    \A k \in 2 .. Len(steps), e \in RollbackErrors :
        FailedAt(k, <<Call("rollback", k - 1, e)>>)
            => \A i \in 1 .. k - 1 : i \in Range(RolledBack)

\* C7: the cursor lies between 0 and total_steps(), and is_complete() is true
\* exactly when every step of the sequence has succeeded or been skipped.
C7_CursorTracksProgress ==
    /\ current_step \in 0 .. total_steps
    /\ is_complete <=> \A i \in 1 .. Len(steps) : Succeeded(i) \/ Skipped(i)

(***************************************************************************)
(* Claims about the built-in steps (Part 2, specification SpecFs).         *)
(***************************************************************************)
\* the filesystem the n-th call of hist left
After(n) == IF n = Len(hist) THEN fs ELSE hist[n + 1].before

BuiltInSteps == {"CreateDirectories", "ExtractFiles", "CreateShortcuts", "Finalize"}

\* C2: a directory step that created the install directory, followed by a
\* download that failed verification, ends with the error ChecksumMismatch,
\* the directory removed and no metadata file on disk.
C2_FailedDownloadUndoesDirectory ==
    (/\ Len(hist) >= 2
     /\ hist[1].step = "CreateDirectories" /\ hist[1].op = "execute"
     /\ hist[1].res = "none" /\ ~Exists(hist[1].before, BasePath)
     /\ hist[2].step = "Download" /\ hist[2].res = "ChecksumMismatch")
    => (/\ ~Exists(After(2), BasePath)
        /\ ~Exists(After(2), InstallInfo))

\* C8: a built-in step's execute followed by its rollback leaves the
\* filesystem as it was before execute.  The formula states the two cases the
\* claim names: an installation directory that held content before
\* CreateDirectoriesStep ran still exists with that content, and the binary,
\* desktop entry and metadata a completed CreateShortcutsStep created no
\* longer exist.
C8_RollbackRestoresFilesystem ==
    \A n \in 1 .. Len(hist) - 1 :
        (/\ hist[n].op = "execute" /\ hist[n + 1].op = "rollback"
         /\ hist[n].step \in BuiltInSteps /\ hist[n + 1].step = hist[n].step)
        => /\ (/\ hist[n].step = "CreateDirectories"
               /\ hist[n].before[UserFile] = "user")
              => (IsDir(After(n + 1), BasePath) /\ After(n + 1)[UserFile] = "user")
           /\ (/\ hist[n].step = "CreateShortcuts"
               /\ hist[n].res = "none"
               /\ \A p \in {BinaryPath, DesktopEntry, UninstallMetadata} :
                      ~Exists(hist[n].before, p))
              => \A p \in {BinaryPath, DesktopEntry, UninstallMetadata} :
                     ~Exists(After(n + 1), p)

C10_RequirementsIff ==
    (outcome # NotRun /\ probe.exists) =>
        LET S == get_available_space_impl(probe).space
        IN  /\ (outcome.err = "none") <=>
                   (/\ S >= requirements.min_disk_space
                    /\ architecture \in requirements.architectures)
            /\ \A other \in SystemRequirements :
                   (/\ other.min_disk_space = requirements.min_disk_space
                    /\ other.architectures = requirements.architectures)
                   => check_requirements_impl(architecture, probe, other) = outcome

\* C10 witness: the check has run and succeeded with S equal to a positive
\* min_disk_space and RAM and OS requirements present.
C10_Witness ==
    /\ outcome = ReqOk
    /\ probe.exists
    /\ requirements.min_disk_space = get_available_space_impl(probe).space
    /\ requirements.min_disk_space > 0
    /\ requirements.min_ram_mb = "Some"
    /\ requirements.os_versions # <<>>

\* C11: with both requirements unmet the check fails with InsufficientSpace
\* carrying needed = min_disk_space and available = S; RequirementsNotMet is
\* returned only when the space suffices and the architecture is unsupported.
C11_SpaceBeforeArchitecture ==
    (outcome # NotRun /\ probe.exists) =>
        LET S == probe.size * SpaceFactor
        IN  /\ (S < requirements.min_disk_space
                /\ architecture \notin requirements.architectures)
               => outcome = [err |-> "InsufficientSpace",
                             needed |-> requirements.min_disk_space,
                             available |-> S]
            /\ outcome.err = "RequirementsNotMet"
               => (/\ S >= requirements.min_disk_space
                   /\ architecture \notin requirements.architectures)

C11_Witness ==
    /\ outcome.err = "InsufficientSpace"
    /\ probe.exists
    /\ architecture \notin requirements.architectures
    /\ outcome.available < outcome.needed

\* C12: the space compared against min_disk_space is the space at the
\* configured install path: the outcome is the one the check gives for the
\* metadata of install_path.
C12_ProbesConfiguredInstallPath ==
    outcome # NotRun =>
        outcome = check_requirements_impl(architecture, disk[install_path],
                                          requirements)

\* C13: validate_install_path fails with InvalidPath when the path is not
\* absolute or not writable, and returns Ok only for an absolute, writable
\* path.
C13_InvalidPathUnlessAbsoluteWritable ==
    validation # NotValidated =>
        LET ok == candidate.absolute /\ check_write_permission(candidate)
        IN  /\ ok => validation = "none"
            /\ ~ok => validation = "InvalidPath"


(***************************************************************************)
(* Claims about the download (Part 4, specification SpecDl).               *)
(***************************************************************************)
\* the bytes the server delivered
Body == Flatten(response.chunks)

\* download_impl has returned Ok
DownloadSucceeded ==
    pc \in {"verify", "done"} /\ failed_at \in {"none", "verify"}

C15_VerificationLeavesFile ==
    /\ pc = "verify" => (destination = File(Body) /\ failed_at = "none")
    /\ result.err = "ChecksumMismatch" => destination = File(Body)

C15_Witness ==
    /\ result.err = "ChecksumMismatch"
    /\ Len(response.chunks) >= 2
    /\ destination0 = File(<<1>>)

NonDecreasing ==
    \A i \in 2 .. Len(sink) : sink[i - 1].current.v <= sink[i].current.v

C26_ProgressFromZeroToHundred ==
    DownloadSucceeded
    => (/\ Len(sink) > 0
        /\ sink[1].current = F32(0)
        /\ sink[Len(sink)].current = F32(100)
        /\ NonDecreasing)

\* C17: without a content length every Progress has percent 0 and no total,
\* and processed_bytes grows with each emission and is the number of bytes
\* written to the destination so far.
C17_UnknownTotal ==
    ~response.content_length.some =>
        /\ \A i \in 1 .. Len(sink) :
               /\ sink[i].current = F32(0)
               /\ sink[i].total_bytes = None
               /\ i > 1 => sink[i].processed_bytes > sink[i - 1].processed_bytes
        /\ (pc = "loop" /\ Len(sink) > 0)
           => sink[Len(sink)].processed_bytes = Len(destination.bytes)

\* C18: a non-2xx response fails with Download before the destination is
\* created or truncated and before any progress; transport and body-read
\* failures give Download; failures to create, write or flush give Io.
C18_ErrorKinds ==
    pc = "done" =>
        /\ (response.send = "ok" /\ ~is_success(response.status))
           => (/\ result = Err("Download")
               /\ destination = destination0
               /\ sink = <<>>)
        /\ response.send = "transport_error" => result = Err("Download")
        /\ failed_at = "read" => result = Err("Download")
        /\ failed_at \in {"create", "write", "flush"} => result = Err("Io")

C18_Witness ==
    /\ pc = "done"
    /\ response.send = "ok" /\ ~is_success(response.status)
    /\ destination0 = File(<<1>>)
    /\ result = Err("Download")

(***************************************************************************)
(* Claims about Progress (Part 5, specification SpecProgress).             *)
(***************************************************************************)
\* C19: a Progress built by new and any builders has its percent within
\* [0,100]: new brings inputs below 0 to 0 and above 100 to 100, and the
\* builders leave the percent as new made it.
C19_PercentWithinRange ==
    built > 0 =>
        /\ ~progress.current.nan
        /\ progress.current.v >= F32(0).v
        /\ progress.current.v <= F32(100).v

(***************************************************************************)
(* Claims about the selection size (Part 6, specification SpecConfig).     *)
(***************************************************************************)
RECURSIVE SumSizes(_)
SumSizes(I) ==
    IF I = {} THEN 0
    ELSE LET i == CHOOSE j \in I : TRUE
         IN  catalog[i].size_bytes + SumSizes(I \ {i})

\* the components whose id is both in the selection and in the catalog
SelectedInCatalog ==
    {i \in 1 .. Len(catalog) : catalog[i].id \in Range(selected_components)}

\* C20: the computed total is the sum of size_bytes over exactly the
\* components of the catalog whose id is selected; selected ids the catalog
\* lacks add nothing and an id selected more than once counts once.
C20_TotalSizeOfSelection ==
    /\ last_call = "calculate_total_size"
       => config_total_size = SumSizes(SelectedInCatalog)
    /\ last_call = "render"
       => view_total_size = SumSizes(SelectedInCatalog)

C20_Witness ==
    /\ last_call = "calculate_total_size"
    /\ config_total_size > 0
    /\ "plugins" \in Range(selected_components)
    /\ \E i, j \in 1 .. Len(selected_components) :
           /\ i # j
           /\ selected_components[i] = selected_components[j]
           /\ selected_components[i] \in {c.id : c \in Range(catalog)}

\* C21: after any sequence of set_selected_components and
\* calculate_total_size calls, total_size() is the sum for the current
\* selection against the catalog, never one computed for an earlier selection.
C21_TotalSizeIsCurrent ==
    calculated => total_size_getter = SumSizes(SelectedInCatalog)

(***************************************************************************)
(* Claims about the application (Part 7, specification SpecApp).           *)
(***************************************************************************)
RequiredIds == {c.id : c \in {d \in Range(ViewComponents) : d.required}}

\* C22: in every reachable state the selection holds the id of every
\* required component, in the view after any clicks and in the configuration
\* after construction and any set_selected_components.
C22_RequiredAlwaysSelected ==
    /\ RequiredIds \subseteq selected
    /\ RequiredIds \subseteq Range(selected_components)

\* C23: validate() returns Ok exactly when the selection is non-empty and
\* the install path is absolute, and both failures are Config errors.
C23_ValidateConfigErrors ==
    config_validation.err # "not_run" =>
        LET ok == /\ config_validation.selection # <<>>
                  /\ is_absolute(config_validation.path)
        IN  /\ ok => config_validation.err = "none"
            /\ ~ok => config_validation.err = "Config"

\* C23 amended: Ok exactly when the selection is non-empty and the path is
\* absolute; an empty selection gives Config, whatever the path; a relative
\* path with a non-empty selection gives InvalidPath.
C23_ValidateErrorKinds ==
    config_validation.err # "not_run" =>
        /\ config_validation.err = "none"
           <=> (/\ config_validation.selection # <<>>
                /\ is_absolute(config_validation.path))
        /\ config_validation.selection = <<>>
           => config_validation.err = "Config"
        /\ (/\ config_validation.selection # <<>>
            /\ ~is_absolute(config_validation.path))
           => config_validation.err = "InvalidPath"

C23_Witness ==
    /\ config_validation.err = "Config"
    /\ config_validation.selection = <<>>
    /\ config_validation.path = RelativePath

(***************************************************************************)
(* Claims about the uninstall metadata (Part 8, specification SpecMeta).   *)
(***************************************************************************)
\* C24: on every platform the metadata written by a successful install has
\* the keys app_name, version, install_path and install_date, and
\* from_metadata on it succeeds with the installed path and version.
C24_MetadataRoundTrip ==
    /\ metadata_file # NoFile
       => \A k \in {"app_name", "version", "install_path", "install_date"} :
              metadata_file[k] # Null
    /\ (metadata_file # NoFile /\ uninstaller # NotLoaded)
       => uninstaller = [err |-> "none", install_path |-> installer.path,
                         version |-> installer.version]

(***************************************************************************)
(* Claims about the installation run of the view (Part 9, SpecRun).        *)
(***************************************************************************)
\* C25: when the download or the install of a release fails, nothing is
\* downloaded or installed after it and the run does not end on the Complete
\* page with progress 100.
C25_FailureHalts ==
    \A i \in DOMAIN events :
        ~events[i].ok
        => /\ i = Len(events)
           /\ ~(view_page = "Complete" /\ install_progress = F32(100))

\* C27: during a run the overall progress never decreases and stays within
\* [0, 100].
C27_ProgressMonotoneInRange ==
    [][/\ install_progress'.v >= install_progress.v
       /\ install_progress'.v >= 0
       /\ install_progress'.v <= F32(100).v]_vars

\* C29: once start_installation has been invoked (the view is on the
\* Installing page) the view eventually reaches the Complete page.
C29_InstallingLeadsToComplete ==
    (view_page = "Installing") ~> (view_page = "Complete")

(***************************************************************************)
(* Claims about the list of releases (Part 10, specification SpecList).    *)
(***************************************************************************)
\* C30: after the first fetch_releases call current_releases_page is at least
\* 1, and the releases list never holds the results of one page twice.
C30_PageAndListConsistent ==
    /\ requests_sent > 0 => current_releases_page >= 1
    /\ \A i, j \in DOMAIN releases :
           i # j => releases[i].tag_name # releases[j].tag_name

(***************************************************************************)
(* Claims about the extraction paths (Part 11, specification SpecArchive). *)
(***************************************************************************)
\* C28: both extraction paths select the handling by the extension in the
\* same way: .tar.gz and .tgz as gzip-compressed tar, .zip as zip, .exe as a
\* copy.
C28_SameArchiveHandling ==
    LET expected ==
            IF ends_with_tar_gz(archive_path) \/ Extension(archive_path) = "tgz"
            THEN "tar_gz"
            ELSE IF Extension(archive_path) = "zip" THEN "zip"
            ELSE IF Extension(archive_path) = "exe" THEN "copy"
            ELSE "unspecified"
    IN  (step_handling # NotHandled /\ view_handling # NotHandled
         /\ expected # "unspecified")
        => (step_handling = expected /\ view_handling = expected)

====
